---- MODULE Spec2Model ----
(***************************************************************************)
(* A model of the CHIP-8 virtual machine of src/chip8.cpp: the machine     *)
(* state (Chip8VM::State, Chip8VM::FB, the wait-for-key latch, Keypad),    *)
(* the operations reset/load/step/timerTick/feedKey and the driver loop    *)
(* App::run that calls them.                                               *)
(***************************************************************************)
EXTENDS Integers, Sequences, FiniteSets, TLC

\* ------------------------------------------------------------ constants
kDisplayWidth  == 64
kDisplayHeight == 32
kPixelCount    == kDisplayWidth * kDisplayHeight
kMemSize       == 4096
kEntryAddr     == 512
kRegCount      == 16
kStackDepth    == 16
kKeyCount      == 16
kGlyphBytes    == 5
fontAddr       == 80
cycles         == 10

kFontSprites ==
  << 240,144,144,144,240,   32, 96, 32, 32,112,  240, 16,240,128,240,  240, 16,240, 16,240,
     144,144,240, 16, 16,  240,128,240, 16,240,  240,128,240,144,240,  240, 16, 32, 64, 64,
     240,144,240,144,240,  240,144,240, 16,240,  240,144,240,144,144,  224,144,224,144,224,
     240,128,128,128,240,  224,144,144,144,224,  240,128,240,128,240,  240,128,240,128,128 >>

\* ------------------------------------------------------------ bounds
\* step() calls followed in one run
MaxSteps  == 17
\* key events (down or up) delivered in one run
MaxEvents == 2

\* ------------------------------------------------------------ integer helpers
Byte == 0..255
U8(n)  == n % 256
U16(n) == n % 65536

RECURSIVE Pow2(_)
Pow2(k) == IF k = 0 THEN 1 ELSE 2 * Pow2(k - 1)

RECURSIVE BitAnd(_, _)
\* a & b on non-negative integers
BitAnd(a, b) ==
  IF a = 0 \/ b = 0 THEN 0
  ELSE (a % 2) * (b % 2) + 2 * BitAnd(a \div 2, b \div 2)

RECURSIVE BitOr(_, _)
\* a | b on non-negative integers
BitOr(a, b) ==
  IF a = 0 THEN b
  ELSE IF b = 0 THEN a
  ELSE (IF a % 2 = 1 \/ b % 2 = 1 THEN 1 ELSE 0) + 2 * BitOr(a \div 2, b \div 2)

RECURSIVE BitXor(_, _)
\* a ^ b on non-negative integers
BitXor(a, b) ==
  IF a = 0 THEN b
  ELSE IF b = 0 THEN a
  ELSE ((a + b) % 2) + 2 * BitXor(a \div 2, b \div 2)

\* ------------------------------------------------------------ state
VARIABLES
  mem,      \* State::mem: the bytes that differ from the image reset() leaves
  v,        \* State::v, 16 registers
  I,        \* State::I
  pc,       \* State::pc
  stack,    \* State::stack, 16 return addresses
  sp,       \* State::sp
  DT,       \* State::DT
  ST,       \* State::ST
  fb,       \* FB::pix: the pixels that are not 0
  waitKey,  \* Chip8VM::waitKey
  waitReg,  \* Chip8VM::waitReg
  keys,     \* Keypad::keys
  loc,      \* where App::run is: "init", "run", "exit", "undefined"
  i,        \* the loop counter of App::run's for loop over step()
  draw,     \* what the last step() returned
  beep,     \* whether the last timerTick() wrote BEEP
  lastOp,   \* the opcode the last step() executed, -1 before the first
  fbBefore, \* the framebuffer as the last step() found it
  vBefore,  \* the registers as the last step() found them
  oobAddr,  \* the out-of-range index of mem the last step() used, -1 when none
  steps,    \* step() calls so far
  events,   \* key events so far
  ticks,    \* timerTick() calls so far
  call,     \* the last call made on the machine or the keypad, with its arguments
  timers,   \* for each timer the value step() last stored in it and the
            \* timerTick() calls since, and the tones written since ST was stored
  frames    \* the calls that pushed and have not returned: for each the address
            \* after its opcode, and sp and the stack entries below sp before it

vmState == <<mem, v, I, pc, stack, sp, DT, ST, fb, waitKey, waitReg>>
vars == <<mem, v, I, pc, stack, sp, DT, ST, fb, waitKey, waitReg, keys,
          loc, i, draw, beep, lastOp, fbBefore, vBefore, oobAddr, steps, events,
          ticks, call, timers, frames>>

\* ------------------------------------------------------------ memory, framebuffer
\* mem[a] after reset(): State{} with the font copied to 0x050
ResetByte(a) ==
  IF a >= fontAddr /\ a < fontAddr + Len(kFontSprites)
  THEN kFontSprites[a - fontAddr + 1] ELSE 0

\* a map with no entry: every byte as reset() leaves it, every pixel 0
NoEntries == [a \in {} |-> 0]

\* map m with key a set to b; a value equal to the default d is not stored
Put(m, a, b, d) ==
  IF b = d THEN [k \in (DOMAIN m) \ {a} |-> m[k]]
  ELSE [k \in (DOMAIN m) \cup {a} |-> IF k = a THEN b ELSE m[k]]

\* st.mem[a], a in 0..4095
MemAt(m, a) == IF a \in DOMAIN m THEN m[a] ELSE ResetByte(a)

\* st.mem[a] = b, a in 0..4095
MemPut(m, a, b) == Put(m, a, b, ResetByte(a))

\* fb.pix[p], p in 0..2047
PixAt(f, p) == IF p \in DOMAIN f THEN f[p] ELSE 0

\* fb.pix[p] = b, p in 0..2047
PixPut(f, p, b) == Put(f, p, b, 0)

\* ------------------------------------------------------------ decoding
Opcode(m, p) == MemAt(m, p) * 256 + MemAt(m, p + 1)
Family(op) == op \div 4096
NNN(op) == op % 4096
NN(op)  == op % 256
N(op)   == op % 16
X(op)   == (op \div 256) % 16
Y(op)   == (op \div 16) % 16

\* ------------------------------------------------------------ reset, load
\* the state Chip8VM() builds: reset(), an unpressed keypad, run() not yet started
Init ==
  /\ mem = NoEntries
  /\ v = [r \in 0..(kRegCount - 1) |-> 0]
  /\ I = 0
  /\ pc = kEntryAddr
  /\ stack = [s \in 0..(kStackDepth - 1) |-> 0]
  /\ sp = 0
  /\ DT = 0
  /\ ST = 0
  /\ fb = NoEntries
  /\ waitKey = FALSE
  /\ waitReg = 0
  /\ keys = [k \in 0..(kKeyCount - 1) |-> FALSE]
  /\ loc = "init"
  /\ i = 0
  /\ draw = FALSE
  /\ beep = FALSE
  /\ lastOp = -1
  /\ fbBefore = NoEntries
  /\ vBefore = [r \in 0..(kRegCount - 1) |-> 0]
  /\ oobAddr = -1
  /\ steps = 0
  /\ events = 0
  /\ ticks = 0
  /\ call = [op |-> "none"]
  /\ timers = [dtSet |-> 0, dtTicks |-> 0, stSet |-> 0, stTicks |-> 0, tones |-> 0]
  /\ frames = <<>>

\* the copy loop of load(), from byte k of the image on: byte j of the image is
\* stored at kEntryAddr + j, each address once
CopyImage(m, bytes, k) ==
  LET dst    == (kEntryAddr + k)..(kEntryAddr + Len(bytes) - 1)
      byte(a) == bytes[a - kEntryAddr + 1]
      kept   == { a \in DOMAIN m : a \notin dst }
      stored == { a \in dst : byte(a) # ResetByte(a) }
  IN  [a \in kept \cup stored |-> IF a \in dst THEN byte(a) ELSE m[a]]

\* load() with a size test that refuses the image ending at the last byte
Load_RefusesFull(readable, bytes) ==
  /\ loc = "init"
  /\ IF readable /\ kEntryAddr + Len(bytes) < kMemSize
     THEN /\ mem' = CopyImage(mem, bytes, 0)
          /\ pc' = kEntryAddr
          /\ loc' = "run"
     ELSE /\ UNCHANGED <<mem, pc>>
          /\ loc' = "exit"
  /\ call' = [op |-> "load", readable |-> readable, bytes |-> bytes]
  /\ UNCHANGED <<v, I, stack, sp, DT, ST, fb, waitKey, waitReg, keys,
                 i, draw, beep, lastOp, fbBefore, vBefore, oobAddr, steps, events,
                 ticks, timers, frames>>

\* Chip8VM::load followed by App::run's test of its result: an unreadable file
\* or an image that does not fit leaves the machine as it was and ends run()
Load(readable, bytes) ==
  /\ loc = "init"
  /\ IF readable /\ kEntryAddr + Len(bytes) <= kMemSize
     THEN /\ mem' = CopyImage(mem, bytes, 0)
          /\ pc' = kEntryAddr
          /\ loc' = "run"
     ELSE /\ UNCHANGED <<mem, pc>>
          /\ loc' = "exit"
  /\ call' = [op |-> "load", readable |-> readable, bytes |-> bytes]
  /\ UNCHANGED <<v, I, stack, sp, DT, ST, fb, waitKey, waitReg, keys,
                 i, draw, beep, lastOp, fbBefore, vBefore, oobAddr, steps, events,
                 ticks, timers, frames>>


\* ------------------------------------------------------------ step(): ALU family
\* case 0x4: the sum is taken first, then the flag is stored, then the result
Alu4(vv, x, y) ==
  LET s  == vv[x] + vv[y]
      v1 == [vv EXCEPT ![15] = IF s > 255 THEN 1 ELSE 0]
  IN  [v1 EXCEPT ![x] = U8(s)]

\* case 0x5: the flag is stored, then v[x] -= v[y] reads the registers again
Alu5(vv, x, y) ==
  LET v1 == [vv EXCEPT ![15] = IF vv[x] > vv[y] THEN 1 ELSE 0]
  IN  [v1 EXCEPT ![x] = U8(v1[x] - v1[y] + 256)]

\* case 0x6: the flag is stored, then v[x] >>= 1 reads v[x] again
Alu6(vv, x, y) ==
  LET v1 == [vv EXCEPT ![15] = BitAnd(vv[x], 1)]
  IN  [v1 EXCEPT ![x] = v1[x] \div 2]

\* case 0x7: the flag is stored, then v[x] = u8(v[y] - v[x]) reads the registers again
Alu7(vv, x, y) ==
  LET v1 == [vv EXCEPT ![15] = IF vv[y] > vv[x] THEN 1 ELSE 0]
  IN  [v1 EXCEPT ![x] = U8(v1[y] - v1[x] + 256)]

\* case 0xE: the flag is stored, then v[x] <<= 1 reads v[x] again
AluE(vv, x, y) ==
  LET v1 == [vv EXCEPT ![15] = BitAnd(vv[x], 128) \div 128]
  IN  [v1 EXCEPT ![x] = U8(v1[x] * 2)]

\* case 0x8000: the switch on the low nibble
Alu(vv, x, y, k) ==
  CASE k = 0  -> [vv EXCEPT ![x] = vv[y]]
    [] k = 1  -> [vv EXCEPT ![x] = BitOr(vv[x], vv[y])]
    [] k = 2  -> [vv EXCEPT ![x] = BitAnd(vv[x], vv[y])]
    [] k = 3  -> [vv EXCEPT ![x] = BitXor(vv[x], vv[y])]
    [] k = 4  -> Alu4(vv, x, y)
    [] k = 5  -> Alu5(vv, x, y)
    [] k = 6  -> Alu6(vv, x, y)
    [] k = 7  -> Alu7(vv, x, y)
    [] k = 14 -> AluE(vv, x, y)
    [] OTHER  -> vv

\* ------------------------------------------------------------ step(): Dxyn
\* FB::at
At(x, y) == y * kDisplayWidth + x

\* SpritePixel with the column wrapped at the display height
SpritePixel_WrapAtHeight(px, py, row, col) ==
  At((px + col) % kDisplayHeight, (py + row) % kDisplayHeight)

\* the pixel a set sprite bit at (row, col) lands on
SpritePixel(px, py, row, col) ==
  At((px + col) % kDisplayWidth, (py + row) % kDisplayHeight)

RECURSIVE DrawCols_Or(_, _, _, _, _, _, _)
\* DrawCols with p |= 1 for p ^= 1
DrawCols_Or(f, vf, sprite, px, py, row, col) ==
  IF col >= 8 THEN [fb |-> f, vf |-> vf]
  ELSE IF BitAnd(sprite, 128 \div Pow2(col)) # 0
       THEN LET p == SpritePixel(px, py, row, col)
            IN  IF PixAt(f, p) = 1
                THEN DrawCols_Or(PixPut(f, p, BitOr(PixAt(f, p), 1)), 1,
                                 sprite, px, py, row, col + 1)
                ELSE DrawCols_Or(PixPut(f, p, BitOr(PixAt(f, p), 1)), vf,
                                 sprite, px, py, row, col + 1)
       ELSE DrawCols_Or(f, vf, sprite, px, py, row, col + 1)

RECURSIVE DrawCols(_, _, _, _, _, _, _)
\* the inner loop of case 0xD000 over the bits of one sprite byte, from col on;
\* f is the framebuffer and vf register 0xF as the loops have left them so far
DrawCols(f, vf, sprite, px, py, row, col) ==
  IF col >= 8 THEN [fb |-> f, vf |-> vf]
  ELSE IF BitAnd(sprite, 128 \div Pow2(col)) # 0
       THEN LET p == SpritePixel(px, py, row, col)
            IN  IF PixAt(f, p) = 1
                THEN DrawCols(PixPut(f, p, BitXor(PixAt(f, p), 1)), 1,
                              sprite, px, py, row, col + 1)
                ELSE DrawCols(PixPut(f, p, BitXor(PixAt(f, p), 1)), vf,
                              sprite, px, py, row, col + 1)
       ELSE DrawCols(f, vf, sprite, px, py, row, col + 1)

RECURSIVE DrawRows_FlagPerRow(_, _, _, _, _, _, _, _)
\* DrawRows with v[0xF] cleared at the start of every row
DrawRows_FlagPerRow(f, vf, m, ireg, px, py, n, row) ==
  IF row >= n THEN [fb |-> f, vf |-> vf]
  ELSE LET r == DrawCols(f, 0, MemAt(m, ireg + row), px, py, row, 0)
       IN  IF r.vf = 1
           THEN DrawRows_FlagPerRow(r.fb, 1, m, ireg, px, py, n, row + 1)
           ELSE DrawRows_FlagPerRow(r.fb, r.vf, m, ireg, px, py, n, row + 1)

RECURSIVE DrawRows(_, _, _, _, _, _, _, _)
\* the outer loop of case 0xD000 over the sprite bytes at I, from row on;
\* each row is evaluated before the next one starts, as the loop runs
DrawRows(f, vf, m, ireg, px, py, n, row) ==
  IF row >= n THEN [fb |-> f, vf |-> vf]
  ELSE LET r == DrawCols(f, vf, MemAt(m, ireg + row), px, py, row, 0)
       IN  IF r.vf = 1
           THEN DrawRows(r.fb, 1, m, ireg, px, py, n, row + 1)
           ELSE DrawRows(r.fb, r.vf, m, ireg, px, py, n, row + 1)

\* case 0xD000: the coordinates are read, v[0xF] is cleared, the loops run
DrawSprite(f, vv, m, ireg, x, y, n) ==
  DrawRows(f, 0, m, ireg, vv[x] % kDisplayWidth, vv[y] % kDisplayHeight, n, 0)

\* ------------------------------------------------------------ step(): memory indices
\* the indices of mem step() uses after the fetch, in the order it uses them
OperandAddrs(op, ireg) ==
  IF Family(op) = 13 THEN [k \in 1..N(op) |-> ireg + k - 1]
  ELSE IF Family(op) = 15 /\ NN(op) = 51 THEN <<ireg, ireg + 1, ireg + 2>>
  ELSE IF Family(op) = 15 /\ NN(op) \in {85, 101} THEN [k \in 1..(X(op) + 1) |-> ireg + k - 1]
  ELSE <<>>

\* the first index in a sequence of indices that lies outside mem, -1 when none does
RECURSIVE FirstOutOfRange(_)
FirstOutOfRange(addrs) ==
  IF addrs = <<>> THEN -1
  ELSE IF Head(addrs) >= kMemSize THEN Head(addrs)
  ELSE FirstOutOfRange(Tail(addrs))

\* the first out-of-range index of mem a step() from this state uses, -1 when none
StepOutOfRange ==
  IF pc >= kMemSize THEN pc
  ELSE IF pc + 1 >= kMemSize THEN pc + 1
  ELSE FirstOutOfRange(OperandAddrs(Opcode(mem, pc), I))

\* ------------------------------------------------------------ step()
\* Keypad::down
Down(ks, k) == IF k < kKeyCount THEN ks[k] ELSE FALSE

\* whether the skip instructions 3xnn, 4xnn, 5xy0, 9xy0, Ex9E, ExA1 add 2 to pc
Skips(op, vv, ks) ==
  LET f == Family(op) x == X(op) y == Y(op) nn == NN(op)
  IN  \/ f = 3  /\ vv[x] = nn
      \/ f = 4  /\ vv[x] # nn
      \/ f = 5  /\ N(op) = 0 /\ vv[x] = vv[y]
      \/ f = 9  /\ N(op) = 0 /\ vv[x] # vv[y]
      \/ f = 14 /\ nn = 158 /\ Down(ks, vv[x])
      \/ f = 14 /\ nn = 161 /\ ~Down(ks, vv[x])

\* whether 00EE pops: the stack is not empty
RetTaken(op, s) == Family(op) = 0 /\ NN(op) = 238 /\ s # 0

\* whether 2nnn pushes: the stack is not full
CallTaken(op, s) == Family(op) = 2 /\ s < kStackDepth

\* PcAfter with a skip that adds 1
PcAfter_SkipOne(op, p2, vv, stk, s, ks) ==
  IF RetTaken(op, s) THEN stk[s - 1]
  ELSE IF Family(op) = 1 THEN NNN(op)
  ELSE IF CallTaken(op, s) THEN NNN(op)
  ELSE IF Family(op) = 11 THEN U16(NNN(op) + vv[0])
  ELSE IF Skips(op, vv, ks) THEN U16(p2 + 1)
  ELSE p2

\* PcAfter with the jump of 2nnn outside the test of the stack depth
PcAfter_DroppedCallJumps(op, p2, vv, stk, s, ks) ==
  IF RetTaken(op, s) THEN stk[s - 1]
  ELSE IF Family(op) = 1 THEN NNN(op)
  ELSE IF Family(op) = 2 THEN NNN(op)
  ELSE IF Family(op) = 11 THEN U16(NNN(op) + vv[0])
  ELSE IF Skips(op, vv, ks) THEN U16(p2 + 2)
  ELSE p2

\* PcAfter with a return to the oldest entry of the stack
PcAfter_ReturnsToOldest(op, p2, vv, stk, s, ks) ==
  IF RetTaken(op, s) THEN stk[0]
  ELSE IF Family(op) = 1 THEN NNN(op)
  ELSE IF CallTaken(op, s) THEN NNN(op)
  ELSE IF Family(op) = 11 THEN U16(NNN(op) + vv[0])
  ELSE IF Skips(op, vv, ks) THEN U16(p2 + 2)
  ELSE p2

\* pc after the instruction; p2 is pc after the fetch (pc += 2 on a u16)
PcAfter(op, p2, vv, stk, s, ks) ==
  IF RetTaken(op, s) THEN stk[s - 1]
  ELSE IF Family(op) = 1 THEN NNN(op)
  ELSE IF CallTaken(op, s) THEN NNN(op)
  ELSE IF Family(op) = 11 THEN U16(NNN(op) + vv[0])
  ELSE IF Skips(op, vv, ks) THEN U16(p2 + 2)
  ELSE p2

\* Fx65 reading from mem[I+1..I+x+1]
LoadRegs_OneAhead(vv, m, ireg, x) ==
  [r \in 0..(kRegCount - 1) |-> IF r <= x THEN MemAt(m, ireg + r + 1) ELSE vv[r]]

\* Fx65: v[0..x] read from mem[I..I+x]
LoadRegs(vv, m, ireg, x) ==
  [r \in 0..(kRegCount - 1) |-> IF r <= x THEN MemAt(m, ireg + r) ELSE vv[r]]

\* the registers after the instruction; r is the value of rand()
RegsAfter(op, vv, m, ireg, dt, f, r) ==
  LET fam == Family(op) x == X(op) y == Y(op) nn == NN(op)
  IN  CASE fam = 6  -> [vv EXCEPT ![x] = nn]
        [] fam = 7  -> [vv EXCEPT ![x] = U8(vv[x] + nn)]
        [] fam = 8  -> Alu(vv, x, y, N(op))
        [] fam = 12 -> [vv EXCEPT ![x] = U8(BitAnd(BitAnd(r, 255), nn))]
        [] fam = 13 -> [vv EXCEPT ![15] = DrawSprite(f, vv, m, ireg, x, y, N(op)).vf]
        [] fam = 15 /\ nn = 7   -> [vv EXCEPT ![x] = dt]
        [] fam = 15 /\ nn = 101 -> LoadRegs(vv, m, ireg, x)
        [] OTHER -> vv

\* I after the instruction
IAfter(op, vv, ireg) ==
  LET fam == Family(op) x == X(op) nn == NN(op)
  IN  CASE fam = 10 -> NNN(op)
        [] fam = 15 /\ nn = 30 -> U16(ireg + vv[x])
        [] fam = 15 /\ nn = 41 -> U16(fontAddr + BitAnd(vv[x], 15) * kGlyphBytes)
        [] OTHER -> ireg

\* Fx33 with a tens digit that is not reduced modulo 10
StoreBcd_TensNotReduced(m, ireg, b) ==
  LET m1 == MemPut(m, ireg, b \div 100)
      m2 == MemPut(m1, ireg + 1, b \div 10)
  IN  MemPut(m2, ireg + 2, b % 10)

\* Fx33: the three decimal digits of v[x] at I, I+1, I+2
StoreBcd(m, ireg, b) ==
  LET m1 == MemPut(m, ireg, b \div 100)
      m2 == MemPut(m1, ireg + 1, (b \div 10) % 10)
  IN  MemPut(m2, ireg + 2, b % 10)

RECURSIVE StoreLoop(_, _, _, _, _)
\* the loop of Fx55 from register k on
StoreLoop(m, vv, ireg, x, k) ==
  IF k > x THEN m
  ELSE StoreLoop(MemPut(m, ireg + k, vv[k]), vv, ireg, x, k + 1)

\* Fx55: v[0..x] written to mem[I..I+x]
StoreRegs(m, vv, ireg, x) == StoreLoop(m, vv, ireg, x, 0)

\* memory after the instruction
MemAfter(op, m, vv, ireg) ==
  LET fam == Family(op) x == X(op) nn == NN(op)
  IN  CASE fam = 15 /\ nn = 51 -> StoreBcd(m, ireg, vv[x])
        [] fam = 15 /\ nn = 85 -> StoreRegs(m, vv, ireg, x)
        [] OTHER -> m

\* whether the instruction clears the framebuffer: family 0 with low byte 0xE0
Clears(op) == Family(op) = 0 /\ NN(op) = 224

\* the framebuffer after the instruction
FbAfter(op, f, vv, m, ireg) ==
  IF Clears(op) THEN NoEntries
  ELSE IF Family(op) = 13 THEN DrawSprite(f, vv, m, ireg, X(op), Y(op), N(op)).fb
  ELSE f

\* a return value that is true for sprite draws only
Redraw_DrawOnly(op) == Family(op) = 13

\* what step() returns
Redraw(op) == Clears(op) \/ Family(op) = 13

\* the record of the timers after the instruction: Fx15 and Fx18 start it anew
TimersAfterStep(op, vv, t) ==
  LET fam == Family(op) x == X(op) nn == NN(op)
  IN  CASE fam = 15 /\ nn = 21 -> [t EXCEPT !.dtSet = vv[x], !.dtTicks = 0]
        [] fam = 15 /\ nn = 24 -> [t EXCEPT !.stSet = vv[x], !.stTicks = 0, !.tones = 0]
        [] OTHER -> t

\* the record of the calls not yet returned after the instruction
FramesAfter(op, p2, stk, s, fr) ==
  IF CallTaken(op, s)
  THEN Append(fr, [ret |-> p2, sp |-> s, below |-> [k \in 0..(s - 1) |-> stk[k]]])
  ELSE IF RetTaken(op, s) /\ fr # <<>> THEN SubSeq(fr, 1, Len(fr) - 1)
  ELSE fr

\* Chip8VM::step, all of whose indices of mem lie inside mem; r is the value of rand()
vmStep(r) ==
  LET op == Opcode(mem, pc)
      p2 == U16(pc + 2)
  IN  /\ pc' = PcAfter(op, p2, v, stack, sp, keys)
      /\ stack' = IF CallTaken(op, sp) THEN [stack EXCEPT ![sp] = p2] ELSE stack
      /\ sp' = IF RetTaken(op, sp) THEN sp - 1
               ELSE IF CallTaken(op, sp) THEN sp + 1 ELSE sp
      /\ v' = RegsAfter(op, v, mem, I, DT, fb, r)
      /\ I' = IAfter(op, v, I)
      /\ mem' = MemAfter(op, mem, v, I)
      /\ fb' = FbAfter(op, fb, v, mem, I)
      /\ DT' = IF Family(op) = 15 /\ NN(op) = 21 THEN v[X(op)] ELSE DT
      /\ ST' = IF Family(op) = 15 /\ NN(op) = 24 THEN v[X(op)] ELSE ST
      /\ waitKey' = IF Family(op) = 15 /\ NN(op) = 10 THEN TRUE ELSE waitKey
      /\ waitReg' = IF Family(op) = 15 /\ NN(op) = 10 THEN X(op) ELSE waitReg
      /\ draw' = Redraw(op)
      /\ lastOp' = op
      /\ fbBefore' = fb
      /\ vBefore' = v
      /\ oobAddr' = -1
      /\ call' = [op |-> "step"]
      /\ timers' = TimersAfterStep(op, v, timers)
      /\ frames' = FramesAfter(op, p2, stack, sp, frames)

\* timerTick with the tone decided before ST is decremented
vmTimerTick_ToneBeforeDecrement ==
  /\ DT' = IF DT > 0 THEN DT - 1 ELSE DT
  /\ ST' = IF ST > 0 THEN ST - 1 ELSE ST
  /\ beep' = (ST > 0)
  /\ call' = [op |-> "timerTick"]
  /\ timers' = [timers EXCEPT !.dtTicks = @ + 1, !.stTicks = @ + 1,
                              !.tones = IF ST > 0 THEN @ + 1 ELSE @]
  /\ UNCHANGED <<mem, v, I, pc, stack, sp, fb, waitKey, waitReg, frames>>

\* timerTick with decrements that wrap below 0
vmTimerTick_Wraps ==
  /\ DT' = U8(DT + 255)
  /\ ST' = U8(ST + 255)
  /\ beep' = (U8(ST + 255) > 0)
  /\ call' = [op |-> "timerTick"]
  /\ timers' = [timers EXCEPT !.dtTicks = @ + 1, !.stTicks = @ + 1,
                              !.tones = IF U8(ST + 255) > 0 THEN @ + 1 ELSE @]
  /\ UNCHANGED <<mem, v, I, pc, stack, sp, fb, waitKey, waitReg, frames>>

\* Chip8VM::timerTick
vmTimerTick ==
  /\ DT' = IF DT > 0 THEN DT - 1 ELSE DT
  /\ ST' = IF ST > 0 THEN ST - 1 ELSE ST
  /\ beep' = (ST > 0 /\ ST - 1 > 0)
  /\ call' = [op |-> "timerTick"]
  /\ timers' = [timers EXCEPT !.dtTicks = @ + 1, !.stTicks = @ + 1,
                              !.tones = IF ST > 0 /\ ST - 1 > 0 THEN @ + 1 ELSE @]
  /\ UNCHANGED <<mem, v, I, pc, stack, sp, fb, waitKey, waitReg, frames>>

\* Chip8VM::feedKey
vmFeedKey(k) ==
  /\ v' = IF waitKey THEN [v EXCEPT ![waitReg] = k] ELSE v
  /\ waitKey' = FALSE
  /\ call' = [op |-> "feedKey", k |-> k]
  /\ UNCHANGED <<mem, I, pc, stack, sp, DT, ST, fb, waitReg, timers, frames>>

\* Keypad::set
KeypadSet(ks, k, b) == IF k < kKeyCount THEN [ks EXCEPT ![k] = b] ELSE ks

\* ------------------------------------------------------------ program images
RECURSIVE Image(_)
\* the bytes of a sequence of opcodes, high byte first
Image(ops) ==
  IF ops = <<>> THEN <<>>
  ELSE <<Head(ops) \div 256, Head(ops) % 256>> \o Image(Tail(ops))

\* the instructions the general programs are made of:
\* 00E0 00EE 01E0 1203 1FFF 2200 3000 5011 6003 7001 8008 A0FE AFFE B203
\* C003 D012 D013 E09E E0A1 F007 F00A F015 F018 F01E F033 F155 F165 F0FF
GeneralOps ==
  { 224, 238, 480, 4611, 8191, 8704, 12288, 20497, 24579, 28673, 32776, 41214, 45054,
    45571, 49155, 53266, 53267, 57502, 57505, 61447, 61450, 61461, 61464, 61470,
    61491, 61781, 61797, 61695 }

\* an image one byte too long for memory
TooBig == [k \in 1..(kMemSize - kEntryAddr + 1) |-> 0]

\* an image that fills memory to its last byte
Full == [k \in 1..(kMemSize - kEntryAddr) |-> IF k = kMemSize - kEntryAddr THEN 1 ELSE 0]

Programs == { Image(<<a, b>>) : a, b \in GeneralOps } \cup { TooBig, Full }

\* the keys the driver delivers
Keys == {3, 15}

\* ------------------------------------------------------------ App::run
\* the opcode at pc, 0 when the fetch would leave mem
CurOp == IF pc + 1 < kMemSize THEN Opcode(mem, pc) ELSE 0

\* the values of rand() that matter to the instruction at pc
RandValues == IF Family(CurOp) = 12 THEN Byte ELSE {0}

\* vm.load(opt.rom) of an image drawn from progs
LoadFrom(progs) ==
  /\ loc = "init"
  /\ \E readable \in BOOLEAN, bytes \in progs : Load(readable, bytes)

\* one vm.step(keys) of the for loop, while fewer than max have been made. A
\* step() that indexes mem out of range has no defined behaviour: the run is
\* followed no further (loc = "undefined") and oobAddr holds the index
StepUpTo(max) ==
  /\ loc = "run"
  /\ i < cycles
  /\ steps < max
  /\ i' = i + 1
  /\ steps' = steps + 1
  /\ UNCHANGED <<keys, beep, events, ticks>>
  /\ IF StepOutOfRange = -1
     THEN /\ \E r \in RandValues : vmStep(r)
          /\ loc' = loc
     ELSE /\ oobAddr' = StepOutOfRange
          /\ loc' = "undefined"
          /\ UNCHANGED <<mem, v, I, pc, stack, sp, DT, ST, fb, waitKey, waitReg,
                         draw, lastOp, fbBefore, vBefore, call, timers, frames>>

Step == StepUpTo(MaxSteps)

\* SDL_KEYDOWN of a mapped key, polled at the top of the loop
KeyDown(k) ==
  /\ loc = "run"
  /\ i = 0
  /\ events < MaxEvents
  /\ events' = events + 1
  /\ keys' = KeypadSet(keys, k, TRUE)
  /\ vmFeedKey(k)
  /\ UNCHANGED <<loc, i, draw, beep, lastOp, fbBefore, vBefore, oobAddr, steps, ticks>>

\* SDL_KEYUP of a mapped key, polled at the top of the loop
KeyUp(k) ==
  /\ loc = "run"
  /\ i = 0
  /\ events < MaxEvents
  /\ events' = events + 1
  /\ keys' = KeypadSet(keys, k, FALSE)
  /\ call' = [op |-> "keyUp", k |-> k]
  /\ UNCHANGED <<vmState, loc, i, draw, beep, lastOp, fbBefore, vBefore, oobAddr, steps,
                 ticks, timers, frames>>

\* the end of a loop iteration when now - last >= dt
Tick ==
  /\ loc = "run"
  /\ i = cycles
  /\ vmTimerTick
  /\ i' = 0
  /\ ticks' = ticks + 1
  /\ UNCHANGED <<keys, loc, draw, lastOp, fbBefore, vBefore, oobAddr, steps, events>>

\* the end of a loop iteration when now - last < dt
NoTick ==
  /\ loc = "run"
  /\ i = cycles
  /\ i' = 0
  /\ UNCHANGED <<vmState, keys, loc, draw, beep, lastOp, fbBefore, vBefore, oobAddr,
                 steps, events, ticks, call, timers, frames>>

LoadProgram == LoadFrom(Programs)

Next ==
  \/ LoadProgram
  \/ Step
  \/ \E k \in Keys : KeyDown(k)
  \/ \E k \in Keys : KeyUp(k)
  \/ Tick
  \/ NoTick

Spec == Init /\ [][Next]_vars

\* ------------------------------------------------------------ claims on App::run
\* the transition is a step() whose indices of mem were all in range
StepTaken == steps' = steps + 1 /\ loc' = "run"

\* the instruction sets pc: a jump, a call that pushes, a return that pops
SetsPc(op, s) == Family(op) \in {1, 11} \/ CallTaken(op, s) \/ RetTaken(op, s)

\* C1: from the Fx0A that sets the waiting state until a key-down is fed, no
\* transition of the driver loop changes pc, the registers, memory, the stack or
\* the framebuffer
C1_SuspendedUntilKey ==
  [][ (waitKey /\ waitKey') => UNCHANGED <<pc, v, mem, stack, sp, fb>> ]_vars

\* C2: no step() indexes mem outside 0..4095
C2_MemIndexInRange == oobAddr = -1

C10_StackEdgesIgnored ==
  [][ (/\ StepTaken
       /\ \/ Family(lastOp') = 2 /\ sp = kStackDepth
          \/ lastOp' = 238 /\ sp = 0)
      => /\ pc' = (pc + 2) % 65536
         /\ UNCHANGED <<stack, sp, v, I, mem, DT, ST>> ]_vars

\* a 2nnn has just been dropped: the stack is full and pc is not nnn
C10_CallDropped ==
  /\ loc = "run"
  /\ lastOp # -1
  /\ Family(lastOp) = 2
  /\ sp = kStackDepth
  /\ pc # NNN(lastOp)

\* ------------------------------------------------------------ the ALU instructions
\* step() calls followed in a run of an ALU program
MaxAluSteps == 3

\* register contents the ALU programs set up
AluValues == {0, 1, 3, 5, 128, 255}

\* the low nibbles of 8xy4, 8xy5, 8xy6, 8xy7, 8xyE
AluKinds == {4, 5, 6, 7, 14}

\* 6xaa
LdImm(x, a) == 24576 + 256 * x + a

\* 8xyk
AluOp(x, y, k) == 32768 + 256 * x + 16 * y + k

\* 6xaa 6ybb 8xyk: Vx and Vy are set, then the instruction runs
AluPrograms ==
  { Image(<<LdImm(x, a), LdImm(y, b), AluOp(x, y, k)>>) :
      x \in 0..(kRegCount - 1), y \in 0..(kRegCount - 1),
      a \in AluValues, b \in AluValues, k \in AluKinds }

LoadAlu == LoadFrom(AluPrograms)

AluStep == StepUpTo(MaxAluSteps)

NextAlu == LoadAlu \/ AluStep

SpecAlu == Init /\ [][NextAlu]_vars

\* the transition is a step() that executed an instruction 8xyk
AluStepOf(k) ==
  /\ steps' = steps + 1
  /\ loc' = "run"
  /\ Family(lastOp') = 8
  /\ N(lastOp') = k

\* C3: 8xy5 leaves VF = 1 iff Vx > Vy and 8xy7 leaves VF = 1 iff Vy > Vx, and for
\* x # 0xF leave Vx = (Vx - Vy) mod 256 and (Vy - Vx) mod 256, all taken from the
\* values the registers held before the instruction
C3_SubtractFlags ==
  [][ LET x == X(lastOp') y == Y(lastOp')
      IN  /\ AluStepOf(5) =>
               /\ v'[15] = (IF v[x] > v[y] THEN 1 ELSE 0)
               /\ x # 15 => v'[x] = (v[x] - v[y] + 256) % 256
          /\ AluStepOf(7) =>
               /\ v'[15] = (IF v[y] > v[x] THEN 1 ELSE 0)
               /\ x # 15 => v'[x] = (v[y] - v[x] + 256) % 256 ]_vars

\* C4: 8xy4 leaves VF = 1 iff Vx + Vy > 255, else 0, and for x # 0xF leaves
\* Vx = (Vx + Vy) mod 256, from the values before the instruction
C4_AddCarry ==
  [][ LET x == X(lastOp') y == Y(lastOp')
      IN  AluStepOf(4) =>
            /\ v'[15] = (IF v[x] + v[y] > 255 THEN 1 ELSE 0)
            /\ x # 15 => v'[x] = (v[x] + v[y]) % 256 ]_vars

\* C5: 8xy6 leaves VF = bit 0 and 8xyE leaves VF = bit 7 of the Vx before the
\* instruction, and for x # 0xF leave Vx shifted right by 1, or left by 1 mod 256
C5_ShiftFlags ==
  [][ LET x == X(lastOp')
      IN  /\ AluStepOf(6) =>
               /\ v'[15] = v[x] % 2
               /\ x # 15 => v'[x] = v[x] \div 2
          /\ AluStepOf(14) =>
               /\ v'[15] = (v[x] \div 128) % 2
               /\ x # 15 => v'[x] = (2 * v[x]) % 256 ]_vars

\* ------------------------------------------------------------ the draw instruction
\* step() calls followed in a run of a draw program
MaxDrawSteps == 6

\* the registers the draw programs name
DrawRegs == {0, 1, 15}

\* the values the draw programs give Vx and Vy
DrawXs == {0, 60, 63, 130}
DrawYs == {0, 30, 31, 100}

\* where the draw programs point I: zero bytes, the font, the program itself
DrawSprites == {0, fontAddr, kEntryAddr}

\* the sprite heights of the draw programs
DrawHeights == {0, 1, 5, 15}

\* by how much the draw programs move Vx between two draws
DrawShifts == {1, 4}

\* Annn
LdI(a) == 40960 + a

\* Dxyn
DrawOp(x, y, n) == 53248 + 256 * x + 16 * y + n

\* 7xdd
AddImm(x, d) == 28672 + 256 * x + d

\* 6xaa 6ybb Annn Dxyn Dxyn Dxyn: the same draw three times in a row, and
\* 6xaa 6ybb Annn Dxyn 7xdd Dxyn: a draw, then the same sprite dd columns on
DrawPrograms ==
  { Image(<<LdImm(x, a), LdImm(y, b), LdI(s), DrawOp(x, y, n), DrawOp(x, y, n),
            DrawOp(x, y, n)>>) :
      x \in DrawRegs, y \in DrawRegs, a \in DrawXs, b \in DrawYs,
      s \in DrawSprites, n \in DrawHeights }
  \cup
  { Image(<<LdImm(xy[1], ab[1]), LdImm(xy[2], ab[2]), LdI(s),
            DrawOp(xy[1], xy[2], n), AddImm(xy[1], d), DrawOp(xy[1], xy[2], n)>>) :
      xy \in DrawRegs \X DrawRegs, ab \in DrawXs \X DrawYs,
      s \in DrawSprites, n \in DrawHeights, d \in DrawShifts }

LoadDraw == LoadFrom(DrawPrograms)

DrawStep == StepUpTo(MaxDrawSteps)

NextDraw == LoadDraw \/ DrawStep

SpecDraw == Init /\ [][NextDraw]_vars

\* the transition is a step() that executed a Dxyn
DrawTaken == StepTaken /\ Family(lastOp') = 13

\* bit col (0 the leftmost) of byte b is set
BitSet(b, col) == (b \div Pow2(7 - col)) % 2 = 1

\* the (row, col) of the set bits of the n sprite bytes at ireg in m
SetBits(m, ireg, n) ==
  { rc \in (0..(n - 1)) \X (0..7) : BitSet(MemAt(m, ireg + rc[1]), rc[2]) }

\* the pixel index of column (a + col) mod 64, row (b + row) mod 32
Wrapped(a, b, rc) == 64 * ((b + rc[1]) % 32) + ((a + rc[2]) % 64)

\* the pixels under the set bits of the sprite the Dxyn op draws from this state
Targets(op) == { Wrapped(v[X(op)], v[Y(op)], rc) : rc \in SetBits(mem, I, N(op)) }

\* the transition is the second of two step() in a row that executed the same Dxyn
SecondDraw == DrawTaken /\ lastOp = lastOp'

\* C7 as stated: the second of two executions in a row of the same Dxyn leaves the
\* framebuffer as it was before the first, and VF = 1
C7_DrawTwiceRestores ==
  [][ SecondDraw => (fb' = fbBefore /\ v'[15] = 1) ]_vars

\* C7 amended: the second of two executions in a row of the same Dxyn draws at
\* the place of the first when neither x nor y is 0xF; whenever it draws at the
\* place of the first (Vx mod 64 and Vy mod 32 as they were) it leaves the
\* framebuffer as it was before the first, and VF = 1 iff the first draw turned
\* a pixel on
C7_DrawTwiceRestoresSamePlace ==
  [][ SecondDraw =>
        LET op == lastOp'
            samePlace == /\ v[X(op)] % 64 = vBefore[X(op)] % 64
                         /\ v[Y(op)] % 32 = vBefore[Y(op)] % 32
            turnedOn == \E p \in Targets(op) : PixAt(fbBefore, p) = 0
        IN  /\ (X(op) # 15 /\ Y(op) # 15) => samePlace
            /\ samePlace => /\ fb' = fbBefore
                            /\ v'[15] = (IF turnedOn THEN 1 ELSE 0) ]_vars

\* x and y are not 0xF, the sprite has set bits, and the second draw in a row of
\* the same Dxyn has emptied the screen the first had drawn on, with VF = 1
C7_SecondDrawDone ==
  /\ loc = "run"
  /\ steps >= 2
  /\ pc = kEntryAddr + 2 * steps
  /\ Family(lastOp) = 13
  /\ Opcode(mem, pc - 4) = lastOp
  /\ X(lastOp) # 15 /\ Y(lastOp) # 15
  /\ fbBefore # NoEntries
  /\ fb = NoEntries
  /\ v[15] = 1

\* C8: after Dxyn, VF = 1 iff a pixel that was 1 lies under a set sprite bit, and
\* that pixel is then 0; VF = 0 otherwise
C8_CollisionFlag ==
  [][ DrawTaken =>
        LET hit == { p \in Targets(lastOp') : PixAt(fb, p) = 1 }
        IN  /\ v'[15] = (IF hit # {} THEN 1 ELSE 0)
            /\ \A p \in hit : PixAt(fb', p) = 0 ]_vars

\* a draw whose first row collided and whose last row did not, with VF = 1
C8_CollisionInEarlyRow ==
  /\ loc = "run"
  /\ Family(lastOp) = 13
  /\ N(lastOp) > 1
  /\ v[15] = 1
  /\ LET px == vBefore[X(lastOp)]  py == vBefore[Y(lastOp)]
         rows(r) == { rc \in SetBits(mem, I, N(lastOp)) : rc[1] = r }
     IN  /\ \E rc \in rows(0) : PixAt(fbBefore, Wrapped(px, py, rc)) = 1
         /\ rows(N(lastOp) - 1) # {}
         /\ \A rc \in rows(N(lastOp) - 1) : PixAt(fbBefore, Wrapped(px, py, rc)) = 0

\* C9: Dxyn toggles the pixel at column (Vx + col) mod 64, row (Vy + row) mod 32
\* for every set sprite bit (row, col) and leaves every other pixel as it was;
\* every pixel ever written lies in the 64x32 grid and every pixel is 0 or 1
C9_WrapAndToggle ==
  /\ [](\A p \in DOMAIN fb : p \in 0..(kPixelCount - 1) /\ fb[p] \in {0, 1})
  /\ [][ DrawTaken =>
           \A p \in (DOMAIN fb) \cup (DOMAIN fb') \cup Targets(lastOp') :
             PixAt(fb', p) = (IF p \in Targets(lastOp') THEN 1 - PixAt(fb, p)
                              ELSE PixAt(fb, p)) ]_vars

\* a sprite drawn at Vx = 60 (mod 64) has lit pixels in columns 60..63 and 0..3
\* of one row
C9_WrappedOntoLeftEdge ==
  /\ loc = "run"
  /\ Family(lastOp) = 13
  /\ vBefore[X(lastOp)] % 64 = 60
  /\ \E r \in 0..(kDisplayHeight - 1) :
       /\ \E c \in 60..63 : PixAt(fb, 64 * r + c) = 1
       /\ \E c \in 0..3 : PixAt(fb, 64 * r + c) = 1
\* ------------------------------------------------------------ the machine's calls
\* step() calls followed in one run of the calls in any order
MaxVmSteps == 17
\* timerTick() calls followed in one run of the calls in any order
MaxTicks == 4

\* the values the timer programs store in the timers
TimerValues == {0, 1, 2, 3}

\* opcodes the instruction table of step() has no case for, or whose case tests
\* the low nibble: 0123 5011 9012 8008 800F E000 E09F F000 F0FF F156
OtherOps == {291, 20497, 36882, 32776, 32783, 57344, 57503, 61440, 61695, 61782}

\* 60nn F015 F018 F007
TimerPrograms == { Image(<<LdImm(0, n), 61461, 61464, 61447>>) : n \in TimerValues }

\* F00A F10A 7001 and F10A 7101 00E0
WaitPrograms == { Image(<<61450, 61706, 28673>>), Image(<<61706, 28929, 224>>) }

\* 2200; 2204 1202 2208 00EE 00EE; 2202 2204 2206 00EE; 00EE 1200;
\* 2204 0000 01EE
StackPrograms ==
  { Image(<<8704>>), Image(<<8708, 4610, 8712, 238, 238>>),
    Image(<<8706, 8708, 8710, 238>>), Image(<<238, 4608>>),
    Image(<<8708, 0, 494>>) }

\* A050 D005 followed by 00E0, 01E0, D005 or an opcode of OtherOps
ScreenPrograms ==
  { Image(<<LdI(fontAddr), DrawOp(0, 0, 5), op>>) :
      op \in {224, 480, DrawOp(0, 0, 5)} \cup OtherOps }

VmPrograms == TimerPrograms \cup WaitPrograms \cup StackPrograms \cup ScreenPrograms

LoadVm == LoadFrom(VmPrograms)

\* vm.step(keys) called at any time, while fewer than max calls have been made;
\* a step() that indexes mem out of range is followed no further
StepCall(max) ==
  /\ loc = "run"
  /\ steps < max
  /\ steps' = steps + 1
  /\ UNCHANGED <<keys, i, beep, events, ticks>>
  /\ IF StepOutOfRange = -1
     THEN /\ \E r \in RandValues : vmStep(r)
          /\ loc' = loc
     ELSE /\ oobAddr' = StepOutOfRange
          /\ loc' = "undefined"
          /\ UNCHANGED <<mem, v, I, pc, stack, sp, DT, ST, fb, waitKey, waitReg,
                         draw, lastOp, fbBefore, vBefore, call, timers, frames>>

VmStepCall == StepCall(MaxVmSteps)

\* vm.timerTick() called at any time
TimerTickCall ==
  /\ loc = "run"
  /\ ticks < MaxTicks
  /\ ticks' = ticks + 1
  /\ vmTimerTick
  /\ UNCHANGED <<keys, loc, i, draw, lastOp, fbBefore, vBefore, oobAddr, steps, events>>

\* vm.feedKey(k) called at any time, the keypad left alone
FeedKeyCall(k) ==
  /\ loc = "run"
  /\ events < MaxEvents
  /\ events' = events + 1
  /\ vmFeedKey(k)
  /\ UNCHANGED <<keys, loc, i, draw, beep, lastOp, fbBefore, vBefore, oobAddr, steps,
                 ticks>>

NextVm ==
  \/ LoadVm
  \/ VmStepCall
  \/ TimerTickCall
  \/ \E k \in Keys : FeedKeyCall(k)
  \/ \E k \in Keys : KeyDown(k)
  \/ \E k \in Keys : KeyUp(k)

SpecVm == Init /\ [][NextVm]_vars

\* ------------------------------------------------------------ claims on the calls
\* the transition is a timerTick() call
TickTaken == ticks' = ticks + 1

\* the transition is a feedKey() call
FeedTaken == events' = events + 1 /\ call'.op = "feedKey"

\* the step() executes 2nnn with room on the stack
AcceptedCall == StepTaken /\ Family(lastOp') = 2 /\ sp < kStackDepth

\* the step() executes 00EE with an entry on the stack
AcceptedReturn == StepTaken /\ lastOp' = 238 /\ sp > 0

\* C11: sp stays in 0..16; an accepted 2nnn writes a slot in 0..15 and adds 1 to
\* sp, an accepted 00EE reads a slot in 0..15 and takes 1 from sp, and no other
\* step(), timerTick() or feedKey() changes sp
C11_StackPointerMoves ==
  /\ [](sp \in 0..kStackDepth)
  /\ [][ /\ AcceptedCall => (sp \in 0..(kStackDepth - 1) /\ sp' = sp + 1)
         /\ AcceptedReturn => (sp - 1 \in 0..(kStackDepth - 1) /\ sp' = sp - 1)
         /\ ~(AcceptedCall \/ AcceptedReturn) => sp' = sp ]_vars

\* C12: while the machine waits, every call but feedKey() leaves it waiting for
\* the register of the Fx0A that began the wait; feedKey(k) then stores k in that
\* register and ends the wait; feedKey() on a machine not waiting changes no register
C12_WaitEndsOnKeyDown ==
  [][ /\ (waitKey /\ ~FeedTaken) => (waitKey' /\ waitReg' = waitReg)
      /\ (waitKey /\ FeedTaken) =>
           (~waitKey' /\ v' = [v EXCEPT ![waitReg] = call'.k])
      /\ (~waitKey /\ FeedTaken) => v' = v ]_vars

\* the smaller and the larger of two numbers
Min(a, b) == IF a < b THEN a ELSE b
Max(a, b) == IF a > b THEN a ELSE b

\* C13: timerTick() takes 1 from each timer that is above 0 and leaves a timer at
\* 0 alone, and writes the tone iff ST was at least 2; so of the ticks since ST
\* was set to n >= 1, exactly the first n - 1 wrote the tone
C13_TickAndTone ==
  /\ [](DT \in Byte /\ ST \in Byte)
  /\ [](timers.tones = Min(timers.stTicks, Max(timers.stSet - 1, 0)))
  /\ [][ TickTaken =>
           /\ DT' = (IF DT > 0 THEN DT - 1 ELSE 0)
           /\ ST' = (IF ST > 0 THEN ST - 1 ELSE 0)
           /\ beep' = (ST >= 2) ]_vars

\* ST was set to 3 and ticked four times: two tones, none on the tick to 0 nor after
C13_ToneStopsAtZero ==
  /\ timers.stSet = 3
  /\ timers.stTicks = 4
  /\ timers.tones = 2
  /\ ST = 0
  /\ ~beep

\* C14: step() changes DT only by Fx15 and ST only by Fx18, timerTick() changes
\* nothing but the timers, and each timer holds max(0, v - t) for the value v last
\* stored in it and the t timerTick() calls since, whatever else was called between
C14_TimersDecoupled ==
  /\ [](/\ DT = Max(0, timers.dtSet - timers.dtTicks)
        /\ ST = Max(0, timers.stSet - timers.stTicks))
  /\ [][ /\ (StepTaken /\ DT' # DT) => (Family(lastOp') = 15 /\ NN(lastOp') = 21)
         /\ (StepTaken /\ ST' # ST) => (Family(lastOp') = 15 /\ NN(lastOp') = 24)
         /\ TickTaken => UNCHANGED <<mem, v, I, pc, stack, sp, fb, waitKey, waitReg,
                                     keys>> ]_vars

\* DT was set to 3, two ticks came with a step() between them, and Fx07 read 1
C14_ReadAfterTwoTicks ==
  /\ timers.dtSet = 3
  /\ timers.dtTicks = 2
  /\ timers.stTicks = 1
  /\ DT = 1
  /\ lastOp = 61447
  /\ call.op = "step"
  /\ v[0] = 1

\* ------------------------------------------------------------ claims on load()
\* the transition is the load() of App::run
LoadTaken == loc = "init" /\ loc' # "init"

\* C15: load() fails iff the file cannot be read or 0x200 + L > 4096; a failed
\* load changes nothing of the machine; a successful one stores the image at
\* 0x200..0x200+L-1, sets pc to 0x200 and changes no other byte of memory
C15_LoadAllOrNothing ==
  [][ LoadTaken =>
        LET bytes == call'.bytes
            fails == ~call'.readable \/ kEntryAddr + Len(bytes) > kMemSize
        IN  /\ (loc' = "exit") <=> fails
            /\ fails => UNCHANGED vmState
            /\ ~fails =>
                 /\ pc' = kEntryAddr
                 /\ \A a \in 0..(kMemSize - 1) :
                      MemAt(mem', a) =
                        IF a >= kEntryAddr /\ a < kEntryAddr + Len(bytes)
                        THEN bytes[a - kEntryAddr + 1] ELSE MemAt(mem, a)
                 /\ UNCHANGED <<v, I, stack, sp, DT, ST, fb, waitKey, waitReg>> ]_vars

\* the image that fills memory to 0xFFF has been loaded, the font still in place
C15_FullImageLoaded ==
  /\ loc = "run"
  /\ call.op = "load"
  /\ Len(call.bytes) = kMemSize - kEntryAddr
  /\ MemAt(mem, kMemSize - 1) = 1
  /\ MemAt(mem, fontAddr) = kFontSprites[1]
  /\ pc = kEntryAddr

\* the image one byte too long has been refused, the machine as reset() left it
C15_TooBigRefused ==
  /\ loc = "exit"
  /\ call.op = "load"
  /\ call.readable
  /\ Len(call.bytes) = kMemSize - kEntryAddr + 1
  /\ mem = NoEntries

\* ------------------------------------------------------------ the memory instructions
\* step() calls followed in a run of a memory program
MaxMemSteps == 5

\* Fx55, Fx65, Fx33
StoreOp(x) == 61440 + 256 * x + 85
LoadOp(x)  == 61440 + 256 * x + 101
BcdOp(x)   == 61440 + 256 * x + 51

\* the values of I the memory programs set: the font, the program itself, free
\* memory, and the last bytes of memory
MemAddrs == {fontAddr, kEntryAddr + 4, 768, 4080, 4093, 4094}

\* 60aa 61bb Annn Fx55 Fx65
RegPrograms ==
  { Image(<<LdImm(0, a), LdImm(1, b), LdI(s), StoreOp(x), LoadOp(x)>>) :
      a \in {0, 7, 255}, b \in {0, 200}, s \in MemAddrs, x \in {0, 1, 15} }

\* 6xbb Annn Fx33
BcdPrograms ==
  { Image(<<LdImm(x, b), LdI(s), BcdOp(x)>>) : b \in Byte, x \in {0, 5}, s \in MemAddrs }

LoadMem == LoadFrom(RegPrograms \cup BcdPrograms)
MemStep == StepUpTo(MaxMemSteps)
NextMem == LoadMem \/ MemStep
SpecMem == Init /\ [][NextMem]_vars

\* the bytes of memory at which two memories differ
Differ(m1, m2) == { a \in DOMAIN m1 \cup DOMAIN m2 : MemAt(m1, a) # MemAt(m2, a) }

\* C16: Fx55 leaves I alone, and the Fx65 with the same x that step() executes
\* next leaves V0..Vx as they were before the Fx55, and I and the registers above
\* x as they were
C16_StoreThenLoad ==
  [][ /\ (StepTaken /\ lastOp' \in {StoreOp(X(lastOp')), LoadOp(X(lastOp'))}) => I' = I
      /\ (/\ StepTaken
          /\ call.op = "step"
          /\ lastOp = StoreOp(X(lastOp'))
          /\ lastOp' = LoadOp(X(lastOp')))
         => /\ \A r \in 0..X(lastOp') : v'[r] = vBefore[r]
            /\ \A r \in (X(lastOp') + 1)..(kRegCount - 1) : v'[r] = v[r] ]_vars

\* F155 then F165 at the font: V0 = 7 and V1 = 200 are in memory and in the registers
C16_RegistersBack ==
  /\ loc = "run"
  /\ call.op = "step"
  /\ lastOp = LoadOp(1)
  /\ Opcode(mem, pc - 4) = StoreOp(1)
  /\ I = fontAddr
  /\ MemAt(mem, I) = 7 /\ MemAt(mem, I + 1) = 200
  /\ v[0] = 7 /\ v[1] = 200

\* C18: Fx33 stores the hundreds, tens and ones digit of Vx at I, I+1, I+2 and
\* changes no other byte of memory, no register and not I
C18_BcdDigits ==
  [][ (StepTaken /\ lastOp' = BcdOp(X(lastOp'))) =>
        LET b == v[X(lastOp')]
            h == MemAt(mem', I)  t == MemAt(mem', I + 1)  o == MemAt(mem', I + 2)
        IN  /\ h \in 0..9 /\ t \in 0..9 /\ o \in 0..9
            /\ 100 * h + 10 * t + o = b
            /\ Differ(mem, mem') \subseteq {I, I + 1, I + 2}
            /\ v' = v
            /\ I' = I ]_vars

\* V5 = 234 has been stored as 2, 3, 4 in the last three bytes of memory
C18_DigitsAtEndOfMemory ==
  /\ loc = "run"
  /\ lastOp = BcdOp(5)
  /\ v[5] = 234
  /\ I = kMemSize - 3
  /\ MemAt(mem, I) = 2 /\ MemAt(mem, I + 1) = 3 /\ MemAt(mem, I + 2) = 4

\* ------------------------------------------------------------ claims on opcodes
\* the opcode matches a pattern of the instruction table: 00E0 00EE 1nnn 2nnn
\* 3xnn 4xnn 5xy0 6xnn 7xnn 8xy0..8xy7 8xyE 9xy0 Annn Bnnn Cxnn Dxyn Ex9E ExA1
\* Fx07 Fx0A Fx15 Fx18 Fx1E Fx29 Fx33 Fx55 Fx65
InTable(op) ==
  LET fam == Family(op)
  IN  \/ op \in {224, 238}
      \/ fam \in {1, 2, 3, 4, 6, 7, 10, 11, 12, 13}
      \/ fam \in {5, 9} /\ N(op) = 0
      \/ fam = 8 /\ N(op) \in (0..7) \cup {14}
      \/ fam = 14 /\ NN(op) \in {158, 161}
      \/ fam = 15 /\ NN(op) \in {7, 10, 21, 24, 30, 41, 51, 85, 101}

\* C17: a step() that executes an opcode outside the instruction table adds 2 to
\* pc, returns false and changes nothing else
C17_OtherOpcodesDoNothing ==
  [][ (StepTaken /\ ~InTable(lastOp')) =>
        /\ pc' = U16(pc + 2)
        /\ ~draw'
        /\ UNCHANGED <<v, I, mem, stack, sp, DT, ST, fb, waitKey, waitReg>> ]_vars

\* C19: an accepted 2nnn pushes the address after its opcode above the entries
\* already there and jumps to nnn; an accepted 00EE sets pc to the address after
\* the latest call not yet returned and leaves sp and the entries below it as they
\* were just before that call
C19_ReturnsMatchCalls ==
  /\ [](Len(frames) = sp)
  /\ [][ /\ AcceptedCall =>
              /\ pc' = NNN(lastOp')
              /\ stack'[sp] = U16(pc + 2)
              /\ \A k \in 0..(sp - 1) : stack'[k] = stack[k]
         /\ AcceptedReturn =>
              LET f == frames[Len(frames)]
              IN  /\ pc' = f.ret
                  /\ sp' = f.sp
                  /\ \A k \in 0..(f.sp - 1) : stack'[k] = f.below[k] ]_vars

\* 2204 1202 2208 00EE 00EE: the inner call has returned to 0x206 and the outer
\* call's entry is still on the stack
C19_InnerCallReturned ==
  /\ loc = "run"
  /\ call.op = "step"
  /\ lastOp = 238
  /\ pc = kEntryAddr + 6
  /\ sp = 1
  /\ stack[0] = kEntryAddr + 2
  /\ Len(frames) = 1

\* C20: the framebuffer changes only in a step() that returns true; a step() that
\* returns false, a timerTick() and a feedKey() leave every pixel as it was
C20_RedrawFlagSound ==
  [][ /\ fb' # fb => (StepTaken /\ draw')
      /\ (StepTaken /\ ~draw') => fb' = fb
      /\ (TickTaken \/ FeedTaken) => fb' = fb ]_vars

\* 00E0 has cleared a screen that had pixels lit, and step() returned true
C20_ClearReported ==
  /\ loc = "run"
  /\ call.op = "step"
  /\ lastOp = 224
  /\ fbBefore # NoEntries
  /\ fb = NoEntries
  /\ draw

====
